---- MODULE Spec2Model ----
(***************************************************************************)
(* A model of src/app.py: the Streamlit study tracker that keeps per-user  *)
(* progress in Firestore.  The remote store (credentials, the global       *)
(* counter, the per-user progress collections) is shared; every browser    *)
(* session has its own st.session_state and runs the script top to bottom  *)
(* on every event.  One action is one remote call of a handler together    *)
(* with the local statements around it, so that the remote calls of        *)
(* different sessions interleave as they can in the deployment.            *)
(***************************************************************************)
EXTENDS Integers, Sequences, FiniteSets, TLC

\* ------------------------------------------------------------------ bounds
\* Browser sessions (devices) that run the script concurrently.
NumSessions == 2
Sessions == 1..NumSessions

\* --------------------------------------------------------------- constants
\* Identifiers and secrets typed into the forms.
UserIds == {"admin", "bob"}
Secrets == {"admin", "secret", "abc"}
\* The secret and its repetition typed into the registration form.
FormSecrets == {<<"secret", "secret">>, <<"admin", "admin">>, <<"abc", "abc">>,
                <<"secret", "admin">>}
\* The verification code drawn by random.randint(1000, 9999), and a string
\* typed that is not the code.
Codes == {"1000"}
WrongCode == "0000"
\* Keys of SUBJECTS that have content, and the content of data/<sid>.json.
SUBJECTS == {"math"}
Points == {<<"math", "Derivatives">>, <<"math", "X">>}
Today == "today"
\* Length of a quiz: random.sample(all_pts, 10), test_index < 10.
QuizLen == 10

\* Failures a remote call can end with (google.api_core.exceptions).
Transient == {"ServiceUnavailable", "RetryError", "DeadlineExceeded"}
Terminal == {"PermissionDenied", "NotFound"}
Errors == Transient \cup Terminal
Outcomes == {"ok"} \cup Errors

\* ---------------------------------------------------------- pure functions
\* hashlib.sha256(pwd.encode()).hexdigest(): injective on the secrets used.
hash_pwd(pwd) == "sha256(" \o pwd \o ")"

\* hashlib.md5(s.encode()).hexdigest(): injective on the keys used.
md5(s) == "md5(" \o s \o ")"

\* f"{sid}_{title}"
Key(sid, title) == sid \o "_" \o title

\* The document id of a push.
doc_id(sid, title) == md5(Key(sid, title))

\* A document is a function from field names to values; a collection is a
\* function from the ids of the documents that exist to the documents.
EmptyDoc == [f \in {} |-> 0]
EmptyColl == [i \in {} |-> EmptyDoc]

\* DocumentSnapshot: .exists and .to_dict()
Snapshot(coll, id) ==
    IF id \in DOMAIN coll THEN [exists |-> TRUE, data |-> coll[id]]
    ELSE [exists |-> FALSE, data |-> EmptyDoc]
NoSnapshot == [exists |-> FALSE, data |-> EmptyDoc]

\* data.get(f) == v
FieldIs(data, f, v) == f \in DOMAIN data /\ data[f] = v

\* doc_ref.set(data, merge=True): the fields of data replace or extend the
\* document's, every other field of the document stays.
MergeFields(old, data) ==
    [f \in DOMAIN old \cup DOMAIN data |->
        IF f \in DOMAIN data THEN data[f] ELSE old[f]]

SetMerge(coll, id, data) ==
    [i \in DOMAIN coll \cup {id} |->
        IF i = id
        THEN (IF id \in DOMAIN coll THEN MergeFields(coll[id], data) ELSE data)
        ELSE coll[i]]

\* doc_ref.set(data): the document becomes data.
SetDoc(coll, id, data) ==
    [i \in DOMAIN coll \cup {id} |-> IF i = id THEN data ELSE coll[i]]

\* The payload of update_cloud_node; m and d are "None", "True" or "False".
Flag(b) == IF b = "True" THEN 1 ELSE 0

update_data(sid, title, m, d) ==
    LET dom == {"subject_id", "title", "update_at"}
               \cup (IF m # "None" THEN {"is_mastered"} ELSE {})
               \cup (IF d # "None" THEN {"is_difficult"} ELSE {})
    IN [f \in dom |->
          CASE f = "subject_id" -> sid
            [] f = "title" -> title
            [] f = "update_at" -> Today
            [] f = "is_mastered" -> Flag(m)
            [] f = "is_difficult" -> Flag(d)]

\* Faulty variant: a record counts as mastered as soon as it has the field.
MasteredOfPresent(coll) ==
    {Key(coll[i]["subject_id"], coll[i]["title"]) :
        i \in {j \in DOMAIN coll : "is_mastered" \in DOMAIN coll[j]}}

\* The two sets sync_user_data folds the streamed documents into.
MasteredOf(coll) ==
    {Key(coll[i]["subject_id"], coll[i]["title"]) :
        i \in {j \in DOMAIN coll : FieldIs(coll[j], "is_mastered", 1)}}
DifficultOf(coll) ==
    {Key(coll[i]["subject_id"], coll[i]["title"]) :
        i \in {j \in DOMAIN coll : FieldIs(coll[j], "is_difficult", 1)}}

\* Faulty variant: the number is written where the transform was meant.
IncrementOverwrite(stored, n) == n

\* firestore.Increment(n) applied by the server to the stored value.
Increment(stored, n) == stored + n

\* ------------------------------------------------------------------- state
VARIABLES
    users,          \* public/data/users: the credential records
    stats,          \* public/data/stats: the document "global"
    progress,       \* users/<id>/progress, one collection per identifier
    session_state,  \* st.session_state of every session
    frame,          \* the handler a session is in, and its local variables
    completed,      \* history: the registrations that ended with success
    last            \* history: the last step's session, remote call and message

vars == <<users, stats, progress, session_state, frame, completed, last>>

\* Section 5 of the script: the keys set when absent.  test_queue is kept as
\* "is non-empty" and test_results by its length; the item at test_index is
\* drawn when it is shown, which is when random.sample's draw is first read.
NoUser == "<unset>"
NoCode == "<unset>"
FreshSession ==
    [logged_in |-> FALSE, started |-> FALSE, data_synced |-> FALSE,
     mastered_points |-> {}, difficult_points |-> {},
     test_queue |-> FALSE, test_index |-> 0, test_results |-> 0,
     user_contact |-> NoUser, sent_code |-> NoCode]

Idle == [pc |-> "idle", u |-> "", p |-> "", doc |-> NoSnapshot]

\* A remote call: the operation, the collection and identifier it addresses,
\* the document id, the payload, how often it was issued, the documents it
\* yielded and how it ended.
Request(op, coll, user, id, data, res) ==
    [op |-> op, coll |-> coll, user |-> user, id |-> id, data |-> data,
     attempts |-> 1, read |-> {}, res |-> res]
NoRequest ==
    [op |-> "none", coll |-> "", user |-> "", id |-> "", data |-> EmptyDoc,
     attempts |-> 0, read |-> {}, res |-> ""]

\* A step of handler h in session s, run for identifier u: its remote call
\* and what it showed.
Step(s, h, u, req, msg) == [s |-> s, h |-> h, u |-> u, req |-> req, shown |-> msg]

InitRemote ==
    /\ users = EmptyColl
    /\ stats = EmptyColl
    /\ progress = [u \in UserIds |-> EmptyColl]

InitSessions ==
    /\ session_state = [s \in Sessions |-> FreshSession]
    /\ frame = [s \in Sessions |-> Idle]
    /\ completed = 0
    /\ last = Step(0, "", "", NoRequest, "")

Init == InitRemote /\ InitSessions

\* ---------------------------------------------------------------- helpers
Str(b) == IF b THEN "True" ELSE "False"

LoggedOut(s) == ~session_state[s].logged_in
\* Faulty variant: the work area opens as soon as the session is logged in.
ActiveUngated(s) == session_state[s].logged_in
LinkPending(s) == session_state[s].logged_in /\ ~session_state[s].started
Active(s) == session_state[s].logged_in /\ session_state[s].started

\* A handler of the Active branch runs after line 284: either this run has
\* made its pull attempt, or the session is synced and the run makes none.
InBody(s) ==
    /\ Active(s)
    /\ \/ frame[s].pc = "body"
       \/ frame[s].pc = "idle" /\ session_state[s].data_synced

\* ------------------------------------------------ update_cloud_node (push)
\* Faulty variant: the write replaces the document (merge=True left out).
update_cloud_node_overwrite(prog, user_id, sid, title, m, d, o) ==
    IF o = "ok"
    THEN [prog EXCEPT ![user_id] =
             SetDoc(@, doc_id(sid, title), update_data(sid, title, m, d))]
    ELSE prog

\* Faulty variant: the document id is taken from the payload's flags as well.
update_cloud_node_flag_id(prog, user_id, sid, title, m, d, o) ==
    IF o = "ok"
    THEN [prog EXCEPT ![user_id] =
             SetMerge(@, md5(Key(sid, title) \o m \o d), update_data(sid, title, m, d))]
    ELSE prog

\* The progress collections after update_cloud_node(user_id, sid, title, m, d)
\* whose remote write ended with outcome o; every exception is passed over.
update_cloud_node(prog, user_id, sid, title, m, d, o) ==
    IF o = "ok"
    THEN [prog EXCEPT ![user_id] =
             SetMerge(@, doc_id(sid, title), update_data(sid, title, m, d))]
    ELSE prog

PushRequest(user_id, sid, title, m, d, o) ==
    Request("set", "progress", user_id, doc_id(sid, title),
            update_data(sid, title, m, d), o)

\* --------------------------------------------------- sync_user_data (pull)
\* The documents of coll whose ids are in read.
Restrict(coll, read) == [i \in read \cap DOMAIN coll |-> coll[i]]

\* A stream of coll that ended with outcome o may have yielded the documents
\* read: all of them when it ended well, any of them when it failed.
Yielded(coll, read, o) ==
    /\ read \subseteq DOMAIN coll
    /\ o = "ok" => read = DOMAIN coll

\* Faulty variant: the pull adds to the session sets instead of replacing them.
sync_user_data_union(ss, coll, read, o) ==
    IF o = "ok"
    THEN [ss EXCEPT !.mastered_points = @ \cup MasteredOf(coll),
                    !.difficult_points = @ \cup DifficultOf(coll),
                    !.data_synced = TRUE]
    ELSE ss

\* Faulty variant: the loop folds the records into the session sets themselves.
sync_user_data_in_place(ss, coll, read, o) ==
    IF o = "ok"
    THEN [ss EXCEPT !.mastered_points = MasteredOf(coll),
                    !.difficult_points = DifficultOf(coll),
                    !.data_synced = TRUE]
    ELSE [ss EXCEPT !.mastered_points = MasteredOf(Restrict(coll, read)),
                    !.difficult_points = DifficultOf(Restrict(coll, read))]

\* The session state after sync_user_data(user_id) whose stream of the
\* collection coll yielded the documents read and ended with outcome o: the
\* loop folds into the locals mastered and difficult, and the three
\* assignments of lines 156-158 run only when the loop has ended.
sync_user_data(ss, coll, read, o) ==
    LET mastered == MasteredOf(Restrict(coll, read))
        difficult == DifficultOf(Restrict(coll, read))
    IN IF o = "ok"
       THEN [ss EXCEPT !.mastered_points = mastered,
                       !.difficult_points = difficult,
                       !.data_synced = TRUE]
       ELSE ss

PullRequest(user_id, read, o) ==
    [Request("stream", "progress", user_id, "", EmptyDoc, o) EXCEPT !.read = read]

SyncShown(o) == IF o = "ok" THEN "" ELSE "sync failed"

\* ------------------------------------------------------------- auth: login
\* Line 237: the two exceptions the login handler reports; any other leaves
\* the handler.
LoginShown(o) ==
    IF o \in {"RetryError", "ServiceUnavailable"}
    THEN "handshake timeout" ELSE "exception"

\* Line 224: user_doc = user_ref.get()
LoginGet(s, l_u, l_p, o) ==
    /\ LoggedOut(s) /\ frame[s].pc = "idle"
    /\ IF o = "ok"
       THEN /\ frame' = [frame EXCEPT ![s] =
                   [pc |-> "login_got", u |-> l_u, p |-> l_p,
                    doc |-> Snapshot(users, l_u)]]
            /\ last' = Step(s, "login", l_u, Request("get", "users", l_u, l_u, EmptyDoc, o), "")
       ELSE /\ frame' = [frame EXCEPT ![s] = Idle]
            /\ last' = Step(s, "login", l_u, Request("get", "users", l_u, l_u, EmptyDoc, o),
                            LoginShown(o))
    /\ UNCHANGED <<users, stats, progress, session_state, completed>>

\* Line 226
Bootstrap(f) == f.u = "admin" /\ ~f.doc.exists /\ f.p = "admin"

AdminRecord == [password |-> hash_pwd("admin"), reg_date |-> Today]

\* Line 227: user_ref.set({...}) of the admin record
LoginBootstrapSet(s, o) ==
    /\ frame[s].pc = "login_got" /\ Bootstrap(frame[s])
    /\ IF o = "ok"
       THEN /\ users' = SetDoc(users, "admin", AdminRecord)
            /\ frame' = [frame EXCEPT ![s].pc = "login_boot"]
            /\ last' = Step(s, "login", frame[s].u, Request("set", "users", "admin", "admin",
                                       AdminRecord, o), "")
       ELSE /\ frame' = [frame EXCEPT ![s] = Idle]
            /\ last' = Step(s, "login", frame[s].u, Request("set", "users", "admin", "admin",
                                       AdminRecord, o), LoginShown(o))
            /\ UNCHANGED users
    /\ UNCHANGED <<stats, progress, session_state, completed>>

\* Lines 228-229: user_doc = user_ref.get()
LoginBootstrapGet(s, o) ==
    /\ frame[s].pc = "login_boot"
    /\ IF o = "ok"
       THEN /\ frame' = [frame EXCEPT ![s].pc = "login_verify",
                                      ![s].doc = Snapshot(users, "admin")]
            /\ last' = Step(s, "login", frame[s].u, Request("get", "users", "admin", "admin",
                                       EmptyDoc, o), "admin activated")
       ELSE /\ frame' = [frame EXCEPT ![s] = Idle]
            /\ last' = Step(s, "login", frame[s].u, Request("get", "users", "admin", "admin",
                                       EmptyDoc, o), LoginShown(o))
    /\ UNCHANGED <<users, stats, progress, session_state, completed>>

\* Faulty variant: the record's existence is checked, the secret is not.
VerifiedAnySecret(f) == f.doc.exists

\* Line 231
Verified(f) == f.doc.exists /\ FieldIs(f.doc.data, "password", hash_pwd(f.p))

\* Lines 231-236: the check of the secret and, when it passes, the pull.
LoginFinish(s, read, o) ==
    /\ \/ frame[s].pc = "login_verify"
       \/ frame[s].pc = "login_got" /\ ~Bootstrap(frame[s])
    /\ IF Verified(frame[s])
       THEN /\ Yielded(progress[frame[s].u], read, o)
            /\ session_state' = [session_state EXCEPT ![s] =
                   sync_user_data([@ EXCEPT !.logged_in = TRUE,
                                            !.user_contact = frame[s].u],
                                  progress[frame[s].u], read, o)]
            /\ last' = Step(s, "login", frame[s].u, PullRequest(frame[s].u, read, o),
                            SyncShown(o))
       ELSE /\ o = "ok" /\ read = {}
            /\ last' = Step(s, "login", frame[s].u, NoRequest, "verification failed")
            /\ UNCHANGED session_state
    /\ frame' = [frame EXCEPT ![s] = Idle]
    /\ UNCHANGED <<users, stats, progress, completed>>

\* ------------------------------------------------------- the link gate
\* Lines 279-280
InitializeLink(s) ==
    /\ LinkPending(s) /\ frame[s].pc = "idle"
    /\ session_state' = [session_state EXCEPT ![s].started = TRUE]
    /\ last' = Step(s, "link", session_state[s].user_contact, NoRequest, "")
    /\ UNCHANGED <<users, stats, progress, frame, completed>>

\* ------------------------------------------------------ the Active branch
\* Faulty variant: every run starts with a pull, synced or not.
RunPullAlways(s, read, o) ==
    /\ Active(s) /\ frame[s].pc = "idle"
    /\ Yielded(progress[session_state[s].user_contact], read, o)
    /\ session_state' = [session_state EXCEPT ![s] =
           sync_user_data(@, progress[@.user_contact], read, o)]
    /\ last' = Step(s, "run", session_state[s].user_contact,
                    PullRequest(session_state[s].user_contact, read, o), SyncShown(o))
    /\ frame' = [frame EXCEPT ![s].pc = "body"]
    /\ UNCHANGED <<users, stats, progress, completed>>

\* Line 284: every run of an unsynced session starts with a pull.
RunPull(s, read, o) ==
    /\ Active(s) /\ frame[s].pc = "idle" /\ ~session_state[s].data_synced
    /\ Yielded(progress[session_state[s].user_contact], read, o)
    /\ session_state' = [session_state EXCEPT ![s] =
           sync_user_data(@, progress[@.user_contact], read, o)]
    /\ last' = Step(s, "run", session_state[s].user_contact,
                    PullRequest(session_state[s].user_contact, read, o), SyncShown(o))
    /\ frame' = [frame EXCEPT ![s].pc = "body"]
    /\ UNCHANGED <<users, stats, progress, completed>>

\* A run in which no widget fired: the script ends after rendering.
EndRun(s) ==
    /\ Active(s) /\ frame[s].pc = "body"
    /\ frame' = [frame EXCEPT ![s] = Idle]
    /\ last' = Step(s, "run", session_state[s].user_contact, NoRequest, "")
    /\ UNCHANGED <<users, stats, progress, session_state, completed>>

\* Faulty variant: logout resets the flags of the session and keeps its sets.
LogoutKeepSets(s) ==
    /\ InBody(s)
    /\ session_state' = [session_state EXCEPT ![s] =
           [FreshSession EXCEPT !.mastered_points = session_state[s].mastered_points,
                                !.difficult_points = session_state[s].difficult_points]]
    /\ frame' = [frame EXCEPT ![s] = Idle]
    /\ last' = Step(s, "logout", session_state[s].user_contact, NoRequest, "")
    /\ UNCHANGED <<users, stats, progress, completed>>

\* Line 292: st.session_state.clear(); the rerun sets the keys of section 5.
Logout(s) ==
    /\ InBody(s)
    /\ session_state' = [session_state EXCEPT ![s] = FreshSession]
    /\ frame' = [frame EXCEPT ![s] = Idle]
    /\ last' = Step(s, "logout", session_state[s].user_contact, NoRequest, "")
    /\ UNCHANGED <<users, stats, progress, completed>>

\* The session set after a toggle handler's add / discard.
AddOrDiscard(set, key, add) == IF add THEN set \cup {key} ELSE set \ {key}

\* Lines 327-330: the difficult button of a point of the review list.
ToggleDifficult(s, sid, title, o) ==
    LET u == session_state[s].user_contact
        m_key == Key(sid, title)
        is_d == m_key \in session_state[s].difficult_points
    IN /\ InBody(s)
       /\ progress' = update_cloud_node(progress, u, sid, title, "None", Str(~is_d), o)
       /\ last' = Step(s, "difficult", u, PushRequest(u, sid, title, "None", Str(~is_d), o), "")
       /\ session_state' = [session_state EXCEPT ![s].difficult_points =
              AddOrDiscard(@, m_key, ~is_d)]
       /\ frame' = [frame EXCEPT ![s] = Idle]
       /\ UNCHANGED <<users, stats, completed>>

\* Lines 331-337: the mastery checkbox of a point of the review list.
ToggleMastered(s, sid, title, o) ==
    LET u == session_state[s].user_contact
        m_key == Key(sid, title)
        is_m == m_key \in session_state[s].mastered_points
    IN /\ InBody(s)
       /\ progress' = update_cloud_node(progress, u, sid, title, Str(~is_m), "None", o)
       /\ last' = Step(s, "mastered", u, PushRequest(u, sid, title, Str(~is_m), "None", o), "")
       /\ session_state' = [session_state EXCEPT ![s].mastered_points =
              AddOrDiscard(@, m_key, ~is_m)]
       /\ frame' = [frame EXCEPT ![s] = Idle]
       /\ UNCHANGED <<users, stats, completed>>

\* ------------------------------------------------------------ the quiz
\* Line 360: the quiz starts when load_all_data() has at least QuizLen items.
\* The content files are taken to hold every point of Points QuizLen times
\* (the entry form appends without a check, line 398), so that any sequence
\* of QuizLen points is a sample random.sample can draw.
EnoughData == TRUE

\* Lines 359-362
QuizStart(s) ==
    /\ InBody(s) /\ ~session_state[s].test_queue
    /\ IF EnoughData
       THEN /\ session_state' = [session_state EXCEPT ![s].test_queue = TRUE,
                                                      ![s].test_index = 0,
                                                      ![s].test_results = 0]
            /\ last' = Step(s, "quiz", session_state[s].user_contact, NoRequest, "")
       ELSE /\ last' = Step(s, "quiz", session_state[s].user_contact, NoRequest, "not enough data")
            /\ UNCHANGED session_state
    /\ frame' = [frame EXCEPT ![s] = Idle]
    /\ UNCHANGED <<users, stats, progress, completed>>

\* Lines 373-375: "remembered"
QuizPass(s) ==
    /\ InBody(s) /\ session_state[s].test_queue
    /\ session_state[s].test_index < QuizLen
    /\ session_state' = [session_state EXCEPT ![s].test_results = @ + 1,
                                              ![s].test_index = @ + 1]
    /\ last' = Step(s, "quiz", session_state[s].user_contact, NoRequest, "")
    /\ frame' = [frame EXCEPT ![s] = Idle]
    /\ UNCHANGED <<users, stats, progress, completed>>

\* Lines 376-379: "set as difficult" on the item test_queue[test_index]
QuizFail(s, sid, title, o) ==
    LET u == session_state[s].user_contact
    IN /\ InBody(s) /\ session_state[s].test_queue
       /\ session_state[s].test_index < QuizLen
       /\ progress' = update_cloud_node(progress, u, sid, title, "None", "True", o)
       /\ session_state' = [session_state EXCEPT ![s].test_results = @ + 1,
                                                 ![s].test_index = @ + 1]
       /\ last' = Step(s, "quiz", u, PushRequest(u, sid, title, "None", "True", o), "")
       /\ frame' = [frame EXCEPT ![s] = Idle]
       /\ UNCHANGED <<users, stats, completed>>

\* Line 384: "again"
QuizAgain(s) ==
    /\ InBody(s) /\ session_state[s].test_queue
    /\ session_state[s].test_index >= QuizLen
    /\ session_state' = [session_state EXCEPT ![s].test_queue = FALSE]
    /\ last' = Step(s, "quiz", session_state[s].user_contact, NoRequest, "")
    /\ frame' = [frame EXCEPT ![s] = Idle]
    /\ UNCHANGED <<users, stats, progress, completed>>

\* ------------------------------------------------------ auth: registration
\* Lines 248-253: the code button
GetCode(s, r_u, code) ==
    /\ LoggedOut(s) /\ frame[s].pc = "idle"
    /\ IF r_u # ""
       THEN /\ session_state' = [session_state EXCEPT ![s].sent_code = code]
            /\ last' = Step(s, "code", r_u, NoRequest, "code " \o code)
       ELSE /\ last' = Step(s, "code", r_u, NoRequest, "fill in the account")
            /\ UNCHANGED session_state
    /\ UNCHANGED <<users, stats, progress, frame, completed>>

\* Lines 255-257: the checks of the form; "" when it passes.
\* st.session_state.get('sent_code') is None until a code was drawn.
FormError(ss, r_p, r_p2, v_in) ==
    IF r_p # r_p2 THEN "secrets differ"
    ELSE IF ss.sent_code = NoCode \/ v_in # ss.sent_code THEN "wrong code"
    ELSE IF Len(r_p) < 5 THEN "secret too short"
    ELSE ""

\* Faulty variant: the existence check is lost.
TakenNever(snapshot) == FALSE

\* Line 260
Taken(snapshot) == snapshot.exists

\* Faulty variant: the credential record is read before the form is checked.
RegisterCheckReadFirst(s, r_u, r_p, r_p2, v_in, o) ==
    LET get == Request("get", "users", r_u, r_u, EmptyDoc, o)
        shown == IF o # "ok" THEN "exception"
                 ELSE IF FormError(session_state[s], r_p, r_p2, v_in) # ""
                 THEN FormError(session_state[s], r_p, r_p2, v_in)
                 ELSE IF Taken(Snapshot(users, r_u)) THEN "identifier taken"
                 ELSE ""
    IN /\ LoggedOut(s) /\ frame[s].pc = "idle"
       /\ last' = Step(s, "register", r_u, get, shown)
       /\ frame' = IF shown = ""
                   THEN [frame EXCEPT ![s] =
                           [pc |-> "reg_set", u |-> r_u, p |-> r_p, doc |-> NoSnapshot]]
                   ELSE frame
       /\ UNCHANGED <<users, stats, progress, session_state, completed>>

\* Lines 254-260: the form checks and user_ref.get().exists
RegisterCheck(s, r_u, r_p, r_p2, v_in, o) ==
    /\ LoggedOut(s) /\ frame[s].pc = "idle"
    /\ IF FormError(session_state[s], r_p, r_p2, v_in) # ""
       THEN /\ o = "ok"
            /\ last' = Step(s, "register", r_u, NoRequest,
                            FormError(session_state[s], r_p, r_p2, v_in))
            /\ UNCHANGED frame
       ELSE IF o # "ok"
       THEN /\ last' = Step(s, "register", r_u,
                            Request("get", "users", r_u, r_u, EmptyDoc, o), "exception")
            /\ UNCHANGED frame
       ELSE IF Taken(Snapshot(users, r_u))
       THEN /\ last' = Step(s, "register", r_u,
                            Request("get", "users", r_u, r_u, EmptyDoc, o),
                            "identifier taken")
            /\ UNCHANGED frame
       ELSE /\ last' = Step(s, "register", r_u,
                            Request("get", "users", r_u, r_u, EmptyDoc, o), "")
            /\ frame' = [frame EXCEPT ![s] =
                   [pc |-> "reg_set", u |-> r_u, p |-> r_p, doc |-> NoSnapshot]]
    /\ UNCHANGED <<users, stats, progress, session_state, completed>>

\* Line 262: user_ref.set({...})
RegisterSet(s, o) ==
    LET record == [password |-> hash_pwd(frame[s].p), reg_date |-> Today]
    IN /\ frame[s].pc = "reg_set"
       /\ IF o = "ok"
          THEN /\ users' = SetDoc(users, frame[s].u, record)
               /\ frame' = [frame EXCEPT ![s].pc = "reg_incr"]
               /\ last' = Step(s, "register", frame[s].u,
                      Request("set", "users", frame[s].u, frame[s].u, record, o), "")
          ELSE /\ frame' = [frame EXCEPT ![s] = Idle]
               /\ last' = Step(s, "register", frame[s].u,
                      Request("set", "users", frame[s].u, frame[s].u, record, o),
                      "exception")
               /\ UNCHANGED users
       /\ UNCHANGED <<stats, progress, session_state, completed>>

\* The stored user_count; a missing document or field counts from 0.
UserCount(st) ==
    IF "global" \in DOMAIN st /\ "user_count" \in DOMAIN st["global"]
    THEN st["global"]["user_count"] ELSE 0

\* Line 263: stats/global.set({"user_count": Increment(1)}, merge=True)
IncrementUserCount(st) ==
    SetMerge(st, "global", [user_count |-> Increment(UserCount(st), 1)])

\* Lines 263-264
RegisterIncr(s, o) ==
    /\ frame[s].pc = "reg_incr"
    /\ IF o = "ok"
       THEN /\ stats' = IncrementUserCount(stats)
            /\ completed' = completed + 1
            /\ last' = Step(s, "register", frame[s].u,
                   Request("incr", "stats", frame[s].u, "global", EmptyDoc, o),
                   "registered")
       ELSE /\ last' = Step(s, "register", frame[s].u,
                   Request("incr", "stats", frame[s].u, "global", EmptyDoc, o),
                   "exception")
            /\ UNCHANGED <<stats, completed>>
    /\ frame' = [frame EXCEPT ![s] = Idle]
    /\ UNCHANGED <<users, progress, session_state>>

\* ------------------------------------------------------------ dashboard
\* Lines 296-302: the counter read of the dashboard; no handler catches what
\* the get raises.
Dashboard(s, o) ==
    LET u == session_state[s].user_contact
        shown == [user_count |-> UserCount(stats)]
    IN /\ InBody(s)
       /\ IF o = "ok"
          THEN last' = Step(s, "dashboard", u,
                            Request("get", "stats", u, "global", shown, o), "dashboard")
          ELSE last' = Step(s, "dashboard", u,
                            Request("get", "stats", u, "global", EmptyDoc, o), "exception")
       /\ frame' = [frame EXCEPT ![s] = Idle]
       /\ UNCHANGED <<users, stats, progress, session_state, completed>>

\* ------------------------------------------------------ password update
\* doc_ref.update(data): the fields of data replace the document's; the call
\* raises NotFound when the document does not exist.
UpdateDoc(coll, id, data) == SetMerge(coll, id, data)

\* Lines 441-446: the form of the security page; no handler catches what the
\* update raises.
PasswordUpdate(s, np, o) ==
    LET u == session_state[s].user_contact
        data == [password |-> hash_pwd(np)]
        res == IF o = "ok" /\ u \notin DOMAIN users THEN "NotFound" ELSE o
    IN /\ InBody(s)
       /\ IF Len(np) >= 5
          THEN IF res = "ok"
               THEN /\ users' = UpdateDoc(users, u, data)
                    /\ last' = Step(s, "password", u,
                                    Request("update", "users", u, u, data, res), "updated")
               ELSE /\ last' = Step(s, "password", u,
                                    Request("update", "users", u, u, data, res), "exception")
                    /\ UNCHANGED users
          ELSE /\ o = "ok"
               /\ last' = Step(s, "password", u, NoRequest, "too short")
               /\ UNCHANGED users
       /\ frame' = [frame EXCEPT ![s] = Idle]
       /\ UNCHANGED <<stats, progress, session_state, completed>>

\* ------------------------------------------------------- specifications
\* The ids of the documents a progress collection can hold.
DocIds == {doc_id(pt[1], pt[2]) : pt \in Points}

Registered(u, secret) ==
    SetDoc(EmptyColl, u, [password |-> hash_pwd(secret), reg_date |-> Today])

\* The sessions as devices of the registered user "bob", and one point:
\* login, the link gate, pulls, the review toggles and logout; a remote call
\* may fail.
SyncOutcomes == {"ok", "ServiceUnavailable"}

InitSync ==
    /\ users = Registered("bob", "secret")
    /\ stats = SetDoc(EmptyColl, "global", [user_count |-> 1])
    /\ progress = [u \in UserIds |-> EmptyColl]
    /\ InitSessions

NextSync ==
    \E s \in Sessions :
        \/ \E o \in SyncOutcomes : LoginGet(s, "bob", "secret", o)
        \/ \E read \in SUBSET DocIds, o \in SyncOutcomes : LoginFinish(s, read, o)
        \/ InitializeLink(s)
        \/ \E read \in SUBSET DocIds, o \in SyncOutcomes : RunPull(s, read, o)
        \/ EndRun(s)
        \/ Logout(s)
        \/ \E o \in SyncOutcomes : ToggleDifficult(s, "math", "Derivatives", o)
        \/ \E o \in SyncOutcomes : ToggleMastered(s, "math", "Derivatives", o)

SpecSync == InitSync /\ [][NextSync]_vars


\* One session of "bob" and two points: login, the link gate, pulls, the
\* review toggles and logout.
InitReview == InitSync

NextReview ==
    \/ \E o \in SyncOutcomes : LoginGet(1, "bob", "secret", o)
    \/ \E read \in SUBSET DocIds, o \in SyncOutcomes : LoginFinish(1, read, o)
    \/ InitializeLink(1)
    \/ \E read \in SUBSET DocIds, o \in SyncOutcomes : RunPull(1, read, o)
    \/ EndRun(1)
    \/ Logout(1)
    \/ \E pt \in Points, o \in SyncOutcomes : ToggleDifficult(1, pt[1], pt[2], o)
    \/ \E pt \in Points, o \in SyncOutcomes : ToggleMastered(1, pt[1], pt[2], o)

SpecReview == InitReview /\ [][NextReview]_vars

\* One session of "bob" and one point: the review toggles and the quiz.
NextQuiz ==
    \/ \E o \in SyncOutcomes : LoginGet(1, "bob", "secret", o)
    \/ \E read \in SUBSET DocIds, o \in SyncOutcomes : LoginFinish(1, read, o)
    \/ InitializeLink(1)
    \/ \E read \in SUBSET DocIds, o \in SyncOutcomes : RunPull(1, read, o)
    \/ EndRun(1)
    \/ Logout(1)
    \/ \E o \in SyncOutcomes : ToggleDifficult(1, "math", "Derivatives", o)
    \/ \E o \in SyncOutcomes : ToggleMastered(1, "math", "Derivatives", o)
    \/ QuizStart(1)
    \/ QuizPass(1)
    \/ \E o \in SyncOutcomes : QuizFail(1, "math", "Derivatives", o)
    \/ QuizAgain(1)

SpecQuiz == InitSync /\ [][NextQuiz]_vars

\* Registration from the state after construction: every session fills in the
\* form with any identifier, secrets and code, and the remote calls of the
\* sessions interleave.
NextReg ==
    \E s \in Sessions :
        \/ \E r_u \in UserIds, code \in Codes : GetCode(s, r_u, code)
        \/ \E r_u \in UserIds, r \in FormSecrets,
              v_in \in Codes \cup {WrongCode}, o \in SyncOutcomes :
                 RegisterCheck(s, r_u, r[1], r[2], v_in, o)
        \/ \E o \in SyncOutcomes : RegisterSet(s, o)
        \/ \E o \in SyncOutcomes : RegisterIncr(s, o)

SpecReg == Init /\ [][NextReg]_vars

\* Login from a state with "bob" registered and no "admin" record: any
\* identifier and secret, every failure of every remote call.
NextLogin ==
    \E s \in Sessions :
        \/ \E l_u \in UserIds \cup {"eve"}, l_p \in Secrets, o \in Outcomes :
              LoginGet(s, l_u, l_p, o)
        \/ \E o \in Outcomes : LoginBootstrapSet(s, o)
        \/ \E o \in Outcomes : LoginBootstrapGet(s, o)
        \/ \E read \in SUBSET DocIds, o \in Outcomes : LoginFinish(s, read, o)
        \/ InitializeLink(s)
        \/ \E read \in SUBSET DocIds, o \in Outcomes : RunPull(s, read, o)
        \/ EndRun(s)
        \/ Logout(s)

SpecLogin == InitSync /\ [][NextLogin]_vars

\* One session and every operation a user can trigger, from the state after
\* construction, with every failure of every remote call.
NextOps ==
    \/ \E r_u \in {"bob"}, code \in Codes : GetCode(1, r_u, code)
    \/ \E r_u \in {"bob"}, r \in {<<"secret", "secret">>}, v_in \in Codes, o \in Outcomes :
          RegisterCheck(1, r_u, r[1], r[2], v_in, o)
    \/ \E o \in Outcomes : RegisterSet(1, o)
    \/ \E o \in Outcomes : RegisterIncr(1, o)
    \/ \E l_u \in UserIds, l_p \in {"admin", "secret"}, o \in Outcomes :
          LoginGet(1, l_u, l_p, o)
    \/ \E o \in Outcomes : LoginBootstrapSet(1, o)
    \/ \E o \in Outcomes : LoginBootstrapGet(1, o)
    \/ \E read \in SUBSET DocIds, o \in Outcomes : LoginFinish(1, read, o)
    \/ InitializeLink(1)
    \/ \E read \in SUBSET DocIds, o \in Outcomes : RunPull(1, read, o)
    \/ EndRun(1)
    \/ Logout(1)
    \/ \E o \in Outcomes : ToggleDifficult(1, "math", "Derivatives", o)
    \/ \E o \in Outcomes : ToggleMastered(1, "math", "Derivatives", o)
    \/ \E o \in Outcomes : Dashboard(1, o)
    \/ \E np \in {"secret", "abc"}, o \in Outcomes : PasswordUpdate(1, np, o)

SpecOps == Init /\ [][NextOps]_vars

\* The reserved identifier from a state without an "admin" record: logins
\* as "admin" with the bootstrap secret or another, the link gate, password
\* updates and logout, the remote calls of the sessions interleaved.
NextAdmin ==
    \E s \in Sessions :
        \/ \E l_p \in {"admin", "secret"}, o \in SyncOutcomes : LoginGet(s, "admin", l_p, o)
        \/ \E o \in SyncOutcomes : LoginBootstrapSet(s, o)
        \/ \E o \in SyncOutcomes : LoginBootstrapGet(s, o)
        \/ \E read \in SUBSET DocIds, o \in SyncOutcomes : LoginFinish(s, read, o)
        \/ InitializeLink(s)
        \/ \E read \in SUBSET DocIds, o \in SyncOutcomes : RunPull(s, read, o)
        \/ EndRun(s)
        \/ Logout(s)
        \/ \E np \in {"secret", "abc"}, o \in SyncOutcomes : PasswordUpdate(s, np, o)

SpecAdmin == InitSync /\ [][NextAdmin]_vars

\* Registrations and logins of the reserved identifier from the state after
\* construction, the remote calls of the sessions interleaved; a remote call
\* may fail.
NextCount ==
    \E s \in Sessions :
        \/ \E r_u \in UserIds, code \in Codes : GetCode(s, r_u, code)
        \/ \E r_u \in UserIds, v_in \in Codes, o \in SyncOutcomes :
              RegisterCheck(s, r_u, "secret", "secret", v_in, o)
        \/ \E o \in SyncOutcomes : RegisterSet(s, o)
        \/ \E o \in SyncOutcomes : RegisterIncr(s, o)
        \/ \E o \in SyncOutcomes : LoginGet(s, "admin", "admin", o)
        \/ \E o \in SyncOutcomes : LoginBootstrapSet(s, o)
        \/ \E o \in SyncOutcomes : LoginBootstrapGet(s, o)
        \/ \E read \in SUBSET DocIds, o \in SyncOutcomes : LoginFinish(s, read, o)

SpecCount == Init /\ [][NextCount]_vars

\* One session of "bob" as the only writer, and no remote call fails: login,
\* the link gate, the review toggles and the quiz on both points, logout.
NextAgree ==
    \/ LoginGet(1, "bob", "secret", "ok")
    \/ \E read \in SUBSET DocIds : LoginFinish(1, read, "ok")
    \/ InitializeLink(1)
    \/ Logout(1)
    \/ \E pt \in Points : ToggleDifficult(1, pt[1], pt[2], "ok")
    \/ \E pt \in Points : ToggleMastered(1, pt[1], pt[2], "ok")
    \/ QuizStart(1)
    \/ QuizPass(1)
    \/ \E pt \in Points : QuizFail(1, pt[1], pt[2], "ok")
    \/ QuizAgain(1)

SpecAgree == InitSync /\ [][NextAgree]_vars

\* One session of "bob" and two points, with the runs of the script going on:
\* a run that has started ends, and the run of an unsynced session finds the
\* store available again and again.
NextRepull ==
    \/ \E o \in SyncOutcomes : LoginGet(1, "bob", "secret", o)
    \/ \E read \in SUBSET DocIds, o \in SyncOutcomes : LoginFinish(1, read, o)
    \/ InitializeLink(1)
    \/ \E read \in SUBSET DocIds, o \in SyncOutcomes : RunPull(1, read, o)
    \/ EndRun(1)
    \/ Logout(1)
    \/ \E pt \in Points, o \in SyncOutcomes : ToggleDifficult(1, pt[1], pt[2], o)
    \/ \E pt \in Points, o \in SyncOutcomes : ToggleMastered(1, pt[1], pt[2], o)

SpecRepull ==
    /\ InitSync /\ [][NextRepull]_vars
    /\ WF_vars(EndRun(1))
    /\ SF_vars(\E read \in SUBSET DocIds : RunPull(1, read, "ok"))

\* The sessions as devices of "bob" at the gate: logins with the right secret
\* and a wrong one, the link gate, the pull of a run, a toggle and logout; the
\* login pull may fail, which leaves the session unsynced.
NextGate ==
    \E s \in Sessions :
        \/ \E l_p \in {"secret", "abc"} : LoginGet(s, "bob", l_p, "ok")
        \/ \E read \in SUBSET DocIds, o \in SyncOutcomes : LoginFinish(s, read, o)
        \/ InitializeLink(s)
        \/ \E read \in SUBSET DocIds : RunPull(s, read, "ok")
        \/ EndRun(s)
        \/ Logout(s)
        \/ ToggleMastered(s, "math", "Derivatives", "ok")

SpecGate == InitSync /\ [][NextGate]_vars

\* One browser session used by two registered users in turn: logins as "bob"
\* or "admin" with the right secret or a wrong one, the link gate, pulls, the
\* review toggles and logout; a remote call may fail.
InitShared ==
    /\ users = SetDoc(Registered("bob", "secret"), "admin",
                      [password |-> hash_pwd("secret"), reg_date |-> Today])
    /\ stats = SetDoc(EmptyColl, "global", [user_count |-> 2])
    /\ progress = [u \in UserIds |-> EmptyColl]
    /\ InitSessions

NextShared ==
    \/ \E l_u \in UserIds, l_p \in {"secret", "abc"}, o \in SyncOutcomes :
          LoginGet(1, l_u, l_p, o)
    \/ \E read \in SUBSET DocIds, o \in SyncOutcomes : LoginFinish(1, read, o)
    \/ InitializeLink(1)
    \/ \E read \in SUBSET DocIds, o \in SyncOutcomes : RunPull(1, read, o)
    \/ EndRun(1)
    \/ Logout(1)
    \/ \E o \in SyncOutcomes : ToggleDifficult(1, "math", "Derivatives", o)
    \/ \E pt \in Points, o \in SyncOutcomes : ToggleMastered(1, pt[1], pt[2], o)

SpecShared == InitShared /\ [][NextShared]_vars

\* ================================================================= claims
\* The value of flag f in the document id of collection coll; -1 when the
\* document or the field is absent.
FlagOf(coll, id, f) ==
    IF id \in DOMAIN coll /\ f \in DOMAIN coll[id] THEN coll[id][f] ELSE -1

\* The documents of user u's progress collection recorded for point pt.
RecordsOf(u, pt) ==
    {i \in DOMAIN progress[u] :
        progress[u][i]["subject_id"] = pt[1] /\ progress[u][i]["title"] = pt[2]}

\* The keys of the points of which u's collection holds a record with f = 1.
RemoteKeys(u, f) ==
    {Key(pt[1], pt[2]) :
        pt \in {q \in Points : \E i \in RecordsOf(u, q) : FlagOf(progress[u], i, f) = 1}}

IsPull(step) == step.req.op = "stream" /\ step.req.coll = "progress"
IsPush(step) == step.req.op = "set" /\ step.req.coll = "progress"

\* C1: when sync_user_data completes without error, mastered_points is
\* exactly the set of keys of the remote records with is_mastered = 1 and
\* difficult_points exactly those with is_difficult = 1, whatever the session
\* sets held before; a key whose record has is_mastered = 0 or no is_mastered
\* is not in mastered_points afterwards.
C1_FullReplacePull ==
    (IsPull(last) /\ last.req.res = "ok") =>
        /\ session_state[last.s].mastered_points = RemoteKeys(last.req.user, "is_mastered")
        /\ session_state[last.s].difficult_points = RemoteKeys(last.req.user, "is_difficult")
        /\ session_state[last.s].data_synced

\* A pull of an Active session (its sets were open to toggles before) has
\* completed, one record has is_mastered = 0 and its key is not in the set,
\* another has is_mastered = 1 and its key is.
C1_Witness ==
    /\ IsPull(last) /\ last.req.res = "ok" /\ last.h = "run"
    /\ \E p, q \in Points :
          /\ \E i \in RecordsOf(last.req.user, p) :
                FlagOf(progress[last.req.user], i, "is_mastered") = 0
          /\ Key(p[1], p[2]) \notin session_state[last.s].mastered_points
          /\ Key(q[1], q[2]) \in session_state[last.s].mastered_points

\* C2: a push that supplies only m never changes is_difficult of the record
\* it addresses (absent stays absent, 0 stays 0, 1 stays 1), and a push that
\* supplies only d never changes is_mastered, whether or not the record
\* existed before.
C2_PartialFieldPush ==
    [][IsPush(last') =>
         LET u == last'.req.user
             id == last'.req.id
         IN /\ "is_difficult" \notin DOMAIN last'.req.data =>
                  FlagOf(progress'[u], id, "is_difficult") = FlagOf(progress[u], id, "is_difficult")
            /\ "is_mastered" \notin DOMAIN last'.req.data =>
                  FlagOf(progress'[u], id, "is_mastered") = FlagOf(progress[u], id, "is_mastered")
            /\ \A j \in DOMAIN progress[u] \ {id} :
                  j \in DOMAIN progress'[u] /\ progress'[u][j] = progress[u][j]]_vars

\* A push of the mastered flag alone went through on a record whose
\* is_difficult is 1.
C2_Witness ==
    /\ IsPush(last) /\ last.req.res = "ok"
    /\ "is_difficult" \notin DOMAIN last.req.data
    /\ FlagOf(progress[last.req.user], last.req.id, "is_difficult") = 1
    /\ FlagOf(progress[last.req.user], last.req.id, "is_mastered") = 0

\* C3: the document id of a push depends on (subject_id, title) alone: a
\* user's collection never holds two records of one pair, and a push repeated
\* with the same arguments leaves every record as the first one left it.
C3_IdempotentAddressing ==
    /\ \A u \in UserIds, pt \in Points : Cardinality(RecordsOf(u, pt)) <= 1
    /\ \A u \in UserIds, pt \in Points, m \in {"None", "True", "False"},
          d \in {"None", "True", "False"} :
          LET once == update_cloud_node(progress, u, pt[1], pt[2], m, d, "ok")
          IN update_cloud_node(once, u, pt[1], pt[2], m, d, "ok") = once

\* Both points have a record, and one of them was written by pushes of both
\* flags, the mastered one at least twice.
C3_Witness ==
    /\ \A pt \in Points : Cardinality(RecordsOf("bob", pt)) = 1
    /\ \E pt \in Points : \E i \in RecordsOf("bob", pt) :
          /\ FlagOf(progress["bob"], i, "is_mastered") = 0
          /\ FlagOf(progress["bob"], i, "is_difficult") = 1

\* C4: with the registrations' remote reads and writes interleaved in any
\* order, user_count (0 at the start) never decreases and equals the number
\* of registrations that completed: N completed registrations of N new
\* identifiers leave it at exactly N.
C4_AtomicCounter ==
    [][/\ UserCount(stats') >= UserCount(stats)
       /\ UserCount(stats') = completed']_vars

\* As many registrations as there are sessions have completed, of as many
\* identifiers, and the counter equals their number.
C4_Witness ==
    /\ completed = NumSessions
    /\ Cardinality(DOMAIN users) = NumSessions
    /\ \A s \in Sessions : frame[s].pc = "idle"
    /\ UserCount(stats) = NumSessions

\* C5: a remote call of a push, a pull or a credential check that fails with
\* a transient error on every attempt is attempted exactly 3 times, and the
\* failure is then raised to the caller, never passed over in silence.
C5_RetryCeiling ==
    (last.req.res \in Transient /\ (IsPush(last) \/ IsPull(last) \/ last.h = "login")) =>
        /\ last.req.attempts = 3
        /\ last.shown # ""

\* C7: a registration attempt for an identifier that already has a
\* credential record fails and changes neither the credential records nor
\* user_count; when its form is in order and the record is read, the error
\* is the duplicate-identifier one.
C7_DuplicateRegistration ==
    [][(/\ last'.h = "register" /\ last'.req.op \in {"none", "get"}
        /\ last'.u \in DOMAIN users)
       => /\ last'.shown \notin {"", "registered"}
          /\ (last'.req.op = "get" /\ last'.req.res = "ok")
                => last'.shown = "identifier taken"
          /\ users' = users /\ stats' = stats /\ completed' = completed
          /\ frame'[last'.s].pc = "idle"]_vars

\* A second registration of a registered identifier was turned down, with
\* one user counted.
C7_Witness ==
    /\ last.h = "register" /\ last.shown = "identifier taken"
    /\ last.u \in DOMAIN users
    /\ UserCount(stats) = 1

\* C8 as claimed: a login attempt whose identifier has no credential
\* record, or whose secret hashes to another value than the record read,
\* fails: logged_in stays false, the session sets and data_synced stay as
\* they were, and no progress collection is read.  (The positions login_boot
\* and login_verify are reached only by an attempt whose read of line 224
\* found no record.)
C8_FailedLoginNoPull ==
    [][\A s \in Sessions :
         LET f == frame[s]
             mismatch == \/ ~f.doc.exists
                         \/ f.doc.data["password"] # hash_pwd(f.p)
             failing == \/ f.pc = "login_got" /\ mismatch
                        \/ f.pc \in {"login_boot", "login_verify"}
         IN (failing /\ frame'[s] # f) =>
               /\ session_state' = session_state
               /\ ~session_state'[s].logged_in
               /\ ~IsPull(last')]_vars

\* C8 as amended: the same, except for the identifier "admin" typed with the
\* secret "admin" while no "admin" record exists, which the login handler
\* provisions and logs in.
C8_FailedLoginNoPullButBootstrap ==
    [][\A s \in Sessions :
         LET f == frame[s]
             checking == \/ f.pc = "login_verify"
                         \/ /\ f.pc = "login_got"
                            /\ ~(f.u = "admin" /\ ~f.doc.exists /\ f.p = "admin")
             mismatch == \/ ~f.doc.exists
                         \/ f.doc.data["password"] # hash_pwd(f.p)
         IN (checking /\ mismatch /\ frame'[s] # f) =>
               /\ last'.s = s /\ last'.shown = "verification failed"
               /\ session_state' = session_state
               /\ ~session_state'[s].logged_in
               /\ last'.req = NoRequest]_vars

\* A login with a registered identifier and a wrong secret was turned down.
C8_Witness ==
    /\ last.h = "login" /\ last.shown = "verification failed"
    /\ last.u \in DOMAIN users
    /\ LoggedOut(last.s)

\* The key of the point a push addresses.
KeyOfPush(req) == Key(req.data["subject_id"], req.data["title"])

C9_ConcurrentFieldPushes ==
    [][(/\ IsPush(last) /\ last.req.res = "ok"
        /\ IsPush(last') /\ last'.req.res = "ok"
        /\ last.s # last'.s
        /\ last.req.user = last'.req.user /\ last.req.id = last'.req.id)
       => \A f \in {"is_mastered", "is_difficult"} :
             LET now == FlagOf(progress'[last'.req.user], last'.req.id, f)
             IN /\ f \in DOMAIN last'.req.data => now = last'.req.data[f]
                /\ (f \in DOMAIN last.req.data /\ f \notin DOMAIN last'.req.data)
                      => now = last.req.data[f]]_vars

\* One device has just pushed the difficult flag of a record whose mastered
\* flag the other device set: the record carries both.
C9_Witness ==
    /\ IsPush(last) /\ last.req.res = "ok"
    /\ "is_mastered" \notin DOMAIN last.req.data
    /\ FlagOf(progress[last.req.user], last.req.id, "is_difficult") = 1
    /\ FlagOf(progress[last.req.user], last.req.id, "is_mastered") = 1
    /\ KeyOfPush(last.req) \notin session_state[last.s].mastered_points
    /\ \E s \in Sessions :
          s # last.s /\ KeyOfPush(last.req) \in session_state[s].mastered_points

\* C10: every action of the Active state that sets or clears a flag (the
\* difficult button, the mastery checkbox, the quiz's "set as difficult")
\* calls update_cloud_node and then adds the key to, or discards it from, the
\* matching session set, whether the write went through or not, and no
\* exception leaves the handler.
C10_ToggleUpdatesLocal ==
    IsPush(last) =>
        /\ last.shown # "exception"
        /\ "is_difficult" \in DOMAIN last.req.data =>
              (KeyOfPush(last.req) \in session_state[last.s].difficult_points
                 <=> last.req.data["is_difficult"] = 1)
        /\ "is_mastered" \in DOMAIN last.req.data =>
              (KeyOfPush(last.req) \in session_state[last.s].mastered_points
                 <=> last.req.data["is_mastered"] = 1)

\* C11: a session goes LoggedOut -> LinkPending only by a credential check
\* that passed, LinkPending -> Active only by the INITIALIZE LINK button, and
\* never LoggedOut -> Active; started implies logged_in in every state, and a
\* push is made only by a session whose logged_in and started are both true.
C11_LinkGate ==
    [][\A s \in Sessions :
         LET in == session_state[s].logged_in
             st == session_state[s].started
             in2 == session_state'[s].logged_in
             st2 == session_state'[s].started
         IN /\ st => in
            /\ st2 => in2
            /\ (~in /\ in2) => (~st2 /\ last'.s = s /\ last'.h = "login"
                                  /\ Verified(frame[s]))
            /\ (~st /\ st2) => (in /\ last'.s = s /\ last'.h = "link")
            /\ (IsPush(last') /\ last'.s = s /\ last' # last) => (in /\ st)]_vars

\* A session that logged in and acknowledged the link has pushed a toggle,
\* while another session waits at the link gate.
C11_Witness ==
    /\ IsPush(last)
    /\ session_state[last.s].logged_in /\ session_state[last.s].started
    /\ \E s \in Sessions : session_state[s].logged_in /\ ~session_state[s].started

\* Whenever a logout is taken, the session afterwards holds exactly the keys
\* of a fresh session: logged_in, started and data_synced false, both sets
\* empty, the quiz queue, index and results reset.
C12_LogoutResets ==
    [][(last'.h = "logout" /\ last' # last) =>
          LET ss == session_state'[last'.s]
          IN /\ ~ss.logged_in /\ ~ss.started /\ ~ss.data_synced
             /\ ss.mastered_points = {} /\ ss.difficult_points = {}
             /\ ~ss.test_queue /\ ss.test_index = 0 /\ ss.test_results = 0
             /\ session_state[last'.s].logged_in]_vars

\* C12: logout can be taken in every state of a logged-in session, LinkPending
\* as well as Active (the click starts a run, which is the pull of line 284
\* followed by the handler or the handler itself), and whenever taken it
\* resets all session-local state and leaves the session LoggedOut.
C12_LogoutAnywhere ==
    /\ [](\A s \in Sessions :
            (session_state[s].logged_in /\ frame[s].pc = "idle") =>
                \/ ENABLED Logout(s)
                \/ ENABLED (\E read \in SUBSET DocIds : RunPull(s, read, "ok")))
    /\ C12_LogoutResets

\* C13: a pull whose scan fails, before the first record or after some were
\* read, leaves mastered_points, difficult_points and data_synced of the
\* session as they were and shows the failure, and no exception leaves
\* sync_user_data; a pull never assigns the sets from a partial scan, and
\* never one set without the other.
C13_FailedPullKeepsState ==
    [][(IsPull(last') /\ last' # last) =>
          LET s == last'.s
              old == session_state[s]
              new == session_state'[s]
              coll == progress[last'.req.user]
          IN /\ last'.shown # "exception"
             /\ last'.req.res # "ok" =>
                   /\ new.mastered_points = old.mastered_points
                   /\ new.difficult_points = old.difficult_points
                   /\ new.data_synced = old.data_synced
                   /\ last'.shown = "sync failed"
             /\ last'.req.res = "ok" =>
                   /\ new.mastered_points = MasteredOf(coll)
                   /\ new.difficult_points = DifficultOf(coll)
                   /\ new.data_synced]_vars

\* A pull failed after it had read a record, in a session whose sets differ
\* from what the records read would have given.
C13_Witness ==
    /\ IsPull(last) /\ last.req.res # "ok" /\ last.req.read # {}
    /\ last.req.read # DOMAIN progress[last.req.user]
    /\ ~session_state[last.s].data_synced
    /\ session_state[last.s].mastered_points
          # MasteredOf(Restrict(progress[last.req.user], last.req.read))
    /\ session_state[last.s].difficult_points # {}

\* C14: whichever operation a user triggers (login, registration, pull,
\* push, dashboard counter read, password update) and however its remote call
\* fails, the failure is shown to the user as an error and no exception of
\* the remote call leaves the handler.
C14_NoFailureCrashes ==
    last.req.res \in Errors =>
        /\ last.shown # "exception"
        /\ last.shown # ""

\* The messages of a registration turned down by a check of the form.
FormRejections == {"secrets differ", "wrong code", "secret too short"}

\* C15 as claimed: a registration turned down for a validation reason (the
\* identifier is taken, the secret is shorter than 5 characters, the
\* repetition differs) is turned down without a remote read or write, and the
\* credential records and user_count stay as they were.
C15_ValidationLocal ==
    [][(/\ last'.h = "register" /\ last' # last
        /\ last'.shown \in FormRejections \cup {"identifier taken"})
       => /\ last'.req = NoRequest
          /\ users' = users /\ stats' = stats]_vars

\* C15 as amended: the checks of the form are made without a remote call; the
\* check of the identifier is one read of its credential record and no write;
\* either way the credential records and user_count stay as they were.
C15_ValidationLocalButDuplicate ==
    [][(/\ last'.h = "register" /\ last' # last
        /\ last'.shown \in FormRejections \cup {"identifier taken"})
       => /\ last'.shown \in FormRejections => last'.req = NoRequest
          /\ last'.shown = "identifier taken" =>
                /\ last'.req.op = "get" /\ last'.req.coll = "users"
                /\ last'.req.id = last'.u
          /\ users' = users /\ stats' = stats]_vars

\* A registration with too short a secret was turned down without a remote
\* call while a credential record exists and another session's registration
\* is under way.
C15_Witness ==
    /\ last.h = "register" /\ last.shown = "secret too short"
    /\ last.req = NoRequest
    /\ users # EmptyColl
    /\ \E s \in Sessions : frame[s].pc = "reg_set"

\* C16: the login path writes the credential record of "admin" only when no
\* "admin" record exists and the secret typed is the bootstrap value; however
\* logins and password updates interleave, it never overwrites an existing
\* "admin" record, so a changed admin secret stays as the update left it.
C16_BootstrapGatedOnAbsence ==
    [][(last'.h = "login" /\ last' # last) =>
          /\ (last'.req.op = "set" /\ last'.req.res = "ok") =>
                /\ last'.req.id = "admin" /\ frame[last'.s].p = "admin"
                /\ ~frame[last'.s].doc.exists
          /\ "admin" \in DOMAIN users =>
                /\ "admin" \in DOMAIN users'
                /\ users'["admin"] = users["admin"]]_vars

\* C17: whenever no registration or login is under way, user_count equals
\* the number of credential records that exist, the auto-provisioned "admin"
\* record included, for every sequence and interleaving of registrations and
\* logins and also when a remote write fails between the credential write
\* and the increment.
C17_CounterMatchesStore ==
    (\A s \in Sessions : frame[s].pc = "idle") =>
        UserCount(stats) = Cardinality(DOMAIN users)

\* C18: when registrations of one new identifier interleave their existence
\* check and their credential write, at most one of them reports success, the
\* credential write of the other does not replace the stored secret, and
\* user_count goes up by exactly 1: never more registrations reported as
\* successful, nor counted, than there are credential records.
C18_ExclusiveRegistration ==
    /\ [](/\ completed <= Cardinality(DOMAIN users)
          /\ UserCount(stats) <= Cardinality(DOMAIN users))
    /\ [][(/\ last'.h = "register" /\ last'.req.op = "set" /\ last' # last
           /\ last'.req.id \in DOMAIN users)
          => users'[last'.req.id] = users[last'.req.id]]_vars

\* C19: with one session as the only writer, the login pull successful and
\* every remote write successful, after every completed action of the Active
\* state (review toggles and quiz answers alike) mastered_points is the set
\* of keys whose remote is_mastered is 1 and difficult_points the set of keys
\* whose remote is_difficult is 1.
C19_LocalRemoteAgree ==
    \A s \in Sessions :
        (Active(s) /\ session_state[s].data_synced /\ frame[s].pc = "idle") =>
            /\ session_state[s].mastered_points
                  = RemoteKeys(session_state[s].user_contact, "is_mastered")
            /\ session_state[s].difficult_points
                  = RemoteKeys(session_state[s].user_contact, "is_difficult")

\* The session sets of s differ from the flags of its user's remote records.
Diverged(s) ==
    \/ session_state[s].mastered_points
          # RemoteKeys(session_state[s].user_contact, "is_mastered")
    \/ session_state[s].difficult_points
          # RemoteKeys(session_state[s].user_contact, "is_difficult")

\* What C20 says of data_synced and of the pulls, in both of its readings:
\* data_synced becomes true only by a successful pull of this session for
\* the identifier it is logged in as, and is true only in a logged-in session
\* whose identifier stays; the run of an Active unsynced session starts with
\* a pull; a synced session issues no pull.
C20_SyncedBySuccessfulPull ==
    [][\A s \in Sessions :
         LET old == session_state[s]
             new == session_state'[s]
             acts == frame'[s] # frame[s] \/ new # old
         IN /\ new.data_synced => new.logged_in
            /\ (~old.data_synced /\ new.data_synced) =>
                  /\ IsPull(last') /\ last'.s = s /\ last'.req.res = "ok"
                  /\ last'.req.user = new.user_contact
            /\ (old.data_synced /\ new.data_synced) => new.user_contact = old.user_contact
            /\ (Active(s) /\ ~old.data_synced /\ frame[s].pc = "idle" /\ acts) =>
                  /\ IsPull(last') /\ last'.s = s
                  /\ last'.req.user = old.user_contact
            /\ (old.data_synced /\ acts) => ~IsPull(last')]_vars

\* An Active unsynced session becomes synced, unless it logs out first.
C20_EventuallySynced ==
    \A s \in {1} :
        (Active(s) /\ ~session_state[s].data_synced)
            ~> (session_state[s].data_synced \/ ~Active(s))

C21_PerUserIsolation ==
    [][\A s \in Sessions :
         LET old == session_state[s]
             new == session_state'[s]
             u == new.user_contact
             mine == last'.s = s /\ last' # last
         IN /\ (old.logged_in /\ new.logged_in) => new.user_contact = old.user_contact
            /\ (~old.logged_in /\ new.logged_in) =>
                  /\ u = frame[s].u /\ Verified(frame[s])
                  /\ IsPull(last') /\ last'.s = s /\ last'.req.user = u
                  /\ new.mastered_points =
                        IF last'.req.res = "ok" THEN MasteredOf(progress[u]) ELSE {}
                  /\ new.difficult_points =
                        IF last'.req.res = "ok" THEN DifficultOf(progress[u]) ELSE {}
            /\ (mine /\ IsPush(last')) =>
                  /\ old.logged_in /\ last'.req.user = old.user_contact
                  /\ \A v \in UserIds \ {old.user_contact} : progress'[v] = progress[v]
                  /\ (new.mastered_points \ old.mastered_points)
                        \cup (old.mastered_points \ new.mastered_points)
                        \cup (new.difficult_points \ old.difficult_points)
                        \cup (old.difficult_points \ new.difficult_points)
                        \subseteq {KeyOfPush(last'.req)}
            /\ (mine /\ IsPull(last')) =>
                  /\ new.logged_in /\ last'.req.user = u
                  /\ \/ /\ new.mastered_points = MasteredOf(progress[u])
                        /\ new.difficult_points = DifficultOf(progress[u])
                     \/ /\ new.mastered_points = old.mastered_points
                        /\ new.difficult_points = old.difficult_points
            /\ (old.logged_in /\ new.logged_in /\ ~(mine /\ (IsPush(last') \/ IsPull(last')))) =>
                  /\ new.mastered_points = old.mastered_points
                  /\ new.difficult_points = old.difficult_points
            /\ ~new.logged_in =>
                  new.mastered_points = {} /\ new.difficult_points = {}]_vars

\* The session has just logged in as "admin" and its pull failed; the records
\* of "bob", written earlier in this session, hold a mastered key, and the
\* session sets are empty.
C21_Witness ==
    /\ last.h = "login" /\ IsPull(last) /\ last.req.res # "ok"
    /\ last.req.user = "admin"
    /\ session_state[last.s].logged_in
    /\ session_state[last.s].user_contact = "admin"
    /\ RemoteKeys("bob", "is_mastered") # {}
    /\ RemoteKeys("admin", "is_mastered") # RemoteKeys("bob", "is_mastered")
    /\ session_state[last.s].mastered_points = {}

====
